---------------------------- MODULE Spec2Model ----------------------------
(***************************************************************************)
(* Anomaly-detection dashboard: the event log, the feature engineering,   *)
(* the AnomalyDetector (fit / predict / save / load) and the session      *)
(* operations of AnomalyDetectionApp (load, retrain, simulate attack).    *)
(*                                                                         *)
(* Units: file sizes are integers in tenths of a megabyte; a risk score   *)
(* is an integer in hundredths (0 .. 10000 stands for 0.00 .. 100.00);    *)
(* contamination is an integer in thousandths (20 stands for 0.02).       *)
(***************************************************************************)
EXTENDS Integers, Sequences, FiniteSets, TLC

VARIABLES
    df,          \* st.session_state.df        : None or the active event log
    model,       \* st.session_state.model     : None or the object stored as model
    df_scored,   \* st.session_state.df_scored : None or the active scored table
    csv,         \* the file at CSV_PATH       : Absent or the written table
    modelFile,   \* the file at model_path     : Absent, Corrupt or the dumped bundle
    report,      \* what the last session operation reported to the user
    finiteCheck, \* whether the installed ensemble rejects NaN features
    det,         \* an AnomalyDetector under direct use (test_app style)
    call,        \* the last call made on det: operation, argument, outcome
    trained,     \* the batch det was last fitted on and the flags that fit gave
    saver,       \* the detector whose save_model wrote modelFile
    stream,      \* the variates np.random and random yield once seeded with RANDOM_SEED
    drawn,       \* how many variates of each of the two streams have been consumed
    clock,       \* datetime.now()
    prev,        \* the generator call made before the last one, if it had the same arguments
    start_times, \* PerformanceMonitor.start_times : per operation, None or when it was started
    metrics      \* PerformanceMonitor.metrics     : per operation, None or its last duration

vars == <<df, model, df_scored, csv, modelFile, report, finiteCheck,
          det, call, trained, saver, stream, drawn, clock, prev, start_times, metrics>>

genVars == <<stream, drawn, clock, prev>>

monVars == <<start_times, metrics>>

detVars == <<det, call, trained, saver>>

appVars == <<df, model, df_scored, csv, report>>

(***************************************************************************)
(* Bounds of the model                                                     *)
(***************************************************************************)
MaxBatch == 3      \* rows in a batch handed to a detector directly
InitRows == 2      \* rows of the initial dataset load_or_generate synthesizes
MaxAttack == 2     \* largest number of events one simulated attack adds
MaxLog == 4        \* rows the session's event log may grow to

\* Python's None, a file that does not exist, a file that cannot be deserialized
None == [none |-> TRUE]
Absent == [file |-> "absent"]
Corrupt == [file |-> "corrupt"]

\* a list of column names as stored in a detector attribute
Columns(list) == [list |-> list]

\* a missing numeric value (NaN) is the empty tuple, a number n is <<n>>
NaN == <<>>
Num(n) == <<n>>
IsNum(x) == Len(x) = 1

(***************************************************************************)
(* config.py                                                               *)
(***************************************************************************)
FILE_TYPES == {"PDF", "Excel", "Database export", "CSV", "Doc", "PPT", "Image"}
Actions == {"view", "download"}
DEFAULT_CONTAMINATION == 20     \* 0.02, in thousandths
N_ESTIMATORS == 300

(***************************************************************************)
(* Events and tables.  A table is a list of column names and a list of    *)
(* rows; a row is a function from the column names to values.             *)
(***************************************************************************)
EventCols == <<"event_id", "user_id", "file_type", "file_size_MB", "access_time", "action">>

Range(s) == {s[i] : i \in 1..Len(s)}

Table(cols, rows) == [cols |-> cols, rows |-> rows]

HasCol(t, c) == c \in Range(t.cols)

\* df[cols] / df.drop(columns=...): the table restricted to a column list
Project(t, cols) ==
    Table(cols, [i \in 1..Len(t.rows) |-> [c \in Range(cols) |-> t.rows[i][c]]])

RECURSIVE SeqRemove(_, _)
SeqRemove(s, x) ==
    IF s = <<>> THEN <<>>
    ELSE IF Head(s) = x THEN SeqRemove(Tail(s), x)
    ELSE <<Head(s)>> \o SeqRemove(Tail(s), x)

DropCol(t, c) == Project(t, SeqRemove(t.cols, c))

\* df[new] = values: append a column when new, overwrite it otherwise
SetCol(t, c, vals) ==
    Table(IF HasCol(t, c) THEN t.cols ELSE Append(t.cols, c),
          [i \in 1..Len(t.rows) |->
              [k \in Range(t.cols) \cup {c} |-> IF k = c THEN vals[i] ELSE t.rows[i][k]]])

\* pd.concat([a, b], ignore_index=True) of two tables with the same columns
Concat(a, b) == Table(a.cols, a.rows \o b.rows)


(***************************************************************************)
(* Outcomes of a call: a value, or the exception that was raised.         *)
(***************************************************************************)
Ok(v) == [ok |-> TRUE, val |-> v]
Raise(e) == [ok |-> FALSE, err |-> e]

(***************************************************************************)
(* FeatureEngineer.engineer_features                                       *)
(***************************************************************************)
WORK_START == 8
WORK_END == 19
LargeFileTenths == 500     \* file_size_MB > 50
SizeRisk10Tenths == 1000   \* file_size_MB > 100
SizeRisk4Tenths == 100     \* file_size_MB > 10

\* (hour < 8) | (hour > 19), as 0 or 1
IsAfterHours(hour) == IF hour < WORK_START \/ hour > WORK_END THEN 1 ELSE 0

RECURSIVE SumSeq(_)
SumSeq(s) == IF s = <<>> THEN 0 ELSE Head(s) + SumSeq(Tail(s))

\* the integer square root of n, searched by bisection in lo .. hi
RECURSIVE IsqrtIn(_, _, _)
IsqrtIn(n, lo, hi) ==
    IF lo >= hi THEN lo
    ELSE LET mid == (lo + hi + 1) \div 2
         IN  IF mid * mid <= n THEN IsqrtIn(n, mid, hi) ELSE IsqrtIn(n, lo, mid - 1)

Isqrt(n) == IsqrtIn(n, 0, 2000)

\* a variant of the grouping in which a group holds only the user's first row
RowsOfUserFirst(rows, u) ==
    SubSeq(SelectSeq(rows, LAMBDA r : r["user_id"] = u), 1, 1)

\* the rows of one user, in batch order (groupby("user_id"))
RowsOfUser(rows, u) == SelectSeq(rows, LAMBDA r : r["user_id"] = u)

ColumnOf(rows, c) == [i \in 1..Len(rows) |-> rows[i][c]]

\* "mean" of file_size_MB over the group, rounded to the unit
GroupMean(sizes) == (2 * SumSeq(sizes) + Len(sizes)) \div (2 * Len(sizes))

\* "std" (sample standard deviation, ddof = 1): NaN for a group of one row
GroupStd(sizes) ==
    LET n == Len(sizes)
        s1 == SumSeq(sizes)
        s2 == SumSeq([i \in 1..n |-> sizes[i] * sizes[i]])
    IN  IF n < 2 THEN NaN ELSE Num(Isqrt((n * s2 - s1 * s1) \div (n * (n - 1))))

\* lambda x: (x == "download").sum()
DownloadCount(acts) == Len(SelectSeq(acts, LAMBDA a : a = "download"))

file_risk_scores ==
    [t \in FILE_TYPES |->
        CASE t = "Database export" -> 10
          [] t = "PDF" -> 7
          [] t = "Excel" -> 6
          [] t = "CSV" -> 5
          [] t = "Doc" -> 4
          [] t = "PPT" -> 3
          [] t = "Image" -> 2]

\* Series.map(dict): a key missing from the dict maps to NaN
FileTypeRisk(t) == IF t \in DOMAIN file_risk_scores THEN Num(file_risk_scores[t]) ELSE NaN

\* a variant of the bucket function in which a boundary belongs to the
\* bucket above it
SizeRiskScoreInclusive(size) ==
    IF size >= SizeRisk10Tenths THEN 10
    ELSE IF size >= LargeFileTenths THEN 7
    ELSE IF size >= SizeRisk4Tenths THEN 4
    ELSE 1

SizeRiskScore(size) ==
    IF size > SizeRisk10Tenths THEN 10
    ELSE IF size > LargeFileTenths THEN 7
    ELSE IF size > SizeRisk4Tenths THEN 4
    ELSE 1

EngineeredCols ==
    <<"hour", "dayofweek", "is_weekend", "is_after_hours",
      "avg_file_size", "std_file_size", "total_access", "download_count", "download_ratio",
      "file_type_risk", "is_large_file", "size_risk_score">>

\* the columns engineer_features reads from its input
EngineerInputs == {"access_time", "user_id", "file_size_MB", "action", "file_type"}

RECURSIVE AppendNew(_, _)
AppendNew(cols, more) ==
    IF more = <<>> THEN cols
    ELSE AppendNew(IF Head(more) \in Range(cols) THEN cols ELSE Append(cols, Head(more)),
                   Tail(more))

EngineerRow(rows, r) ==
    LET grp == RowsOfUser(rows, r["user_id"])
        sizes == ColumnOf(grp, "file_size_MB")
        hour == r["access_time"].hour
        dow == r["access_time"].day % 7
        size == r["file_size_MB"]
        new == [hour |-> hour,
                dayofweek |-> dow,
                is_weekend |-> IF dow \in {5, 6} THEN 1 ELSE 0,
                is_after_hours |-> IsAfterHours(hour),
                avg_file_size |-> GroupMean(sizes),
                std_file_size |-> GroupStd(sizes),
                total_access |-> Len(grp),
                download_count |-> DownloadCount(ColumnOf(grp, "action")),
                download_ratio |-> <<DownloadCount(ColumnOf(grp, "action")), Len(grp)>>,
                file_type_risk |-> FileTypeRisk(r["file_type"]),
                is_large_file |-> IF size > LargeFileTenths THEN 1 ELSE 0,
                size_risk_score |-> SizeRiskScore(size)]
    IN  [c \in DOMAIN r \cup Range(EngineeredCols) |->
            IF c \in Range(EngineeredCols) THEN new[c] ELSE r[c]]

\* a variant in which the callee works on the caller's table itself
CallerTableShared(t, working) == working

\* df_feat = df.copy() / df_scored = df.copy(): the caller's table after the
\* callee has assigned its columns to the working copy
CallerTable(t, working) == t

engineer_features(t) ==
    IF ~(EngineerInputs \subseteq Range(t.cols)) THEN Raise("KeyError")
    ELSE Ok(Table(AppendNew(t.cols, EngineeredCols),
                  [i \in 1..Len(t.rows) |-> EngineerRow(t.rows, t.rows[i])]))


(***************************************************************************)
(* AnomalyDetector.build_pipeline and the fitted pipeline.                 *)
(* The preprocessing step one-hot encodes the categorical features with   *)
(* the categories seen at fit time (handle_unknown = "ignore": an unseen  *)
(* value becomes the all-zero indicator) and passes the numeric features  *)
(* through.  The isolation forest is seeded (random_state = RANDOM_SEED), *)
(* so fitting and scoring are functions of their inputs: a row's score is *)
(* the number of feature coordinates it shares with the training rows     *)
(* (few shared coordinates = easily isolated = low score), and the        *)
(* decision offset is the contamination percentile of the training        *)
(* scores, fixed by fit.                                                   *)
(***************************************************************************)
cat_features == {"file_type", "action", "user_id"}
num_features ==
    {"file_size_MB", "hour", "dayofweek", "is_weekend", "is_after_hours",
     "file_type_risk", "is_large_file", "size_risk_score", "avg_file_size",
     "std_file_size", "download_ratio"}

AllZero == "all-zero"

build_pipeline(d) ==
    [fitted |-> FALSE, contamination |-> d.contamination, n_estimators |-> d.n_estimators]

\* ColumnTransformer.transform: one encoded row per input row
EncodeRow(categories, r) ==
    [f \in cat_features \cup num_features |->
        IF f \in cat_features
        THEN (IF r[f] \in categories[f] THEN r[f] ELSE AllZero)
        ELSE r[f]]

Transform(categories, rows) == [i \in 1..Len(rows) |-> EncodeRow(categories, rows[i])]

\* a numeric coordinate that is NaN
NaNCoordinate(x, f) == f \in {"std_file_size", "file_type_risk"} /\ x[f] = NaN

HasNaN(X) == \E i \in 1..Len(X) : \E f \in num_features : NaNCoordinate(X[i], f)

SharedCoordinates(x, t) ==
    Cardinality({f \in cat_features \cup num_features :
                    /\ ~NaNCoordinate(x, f)
                    /\ ~NaNCoordinate(t, f)
                    /\ x[f] = t[f]})

\* IsolationForest.score_samples of one encoded row against the training rows
ScoreRow(train, x) == SumSeq([j \in 1..Len(train) |-> SharedCoordinates(x, train[j])])

RECURSIVE Insert(_, _)
Insert(s, x) ==
    IF s = <<>> THEN <<x>>
    ELSE IF x <= Head(s) THEN <<x>> \o s
    ELSE <<Head(s)>> \o Insert(Tail(s), x)

RECURSIVE SortAsc(_)
SortAsc(s) == IF s = <<>> THEN <<>> ELSE Insert(SortAsc(Tail(s)), Head(s))

\* np.percentile(scores, 100 * contamination) with linear interpolation,
\* times 1000 (c is the contamination in thousandths)
Percentile1000(scores, c) ==
    LET srt == SortAsc(scores)
        pos == c * (Len(srt) - 1)
        lo == pos \div 1000
        fr == pos % 1000
    IN  IF fr = 0 THEN 1000 * srt[lo + 1]
        ELSE 1000 * srt[lo + 1] + fr * (srt[lo + 2] - srt[lo + 1])

\* Pipeline.fit(df_feat): raises on an empty batch, and on NaN features when
\* the installed ensemble validates finiteness
PipelineFit(p, feat, strict) ==
    LET categories == [f \in cat_features |-> {feat.rows[i][f] : i \in 1..Len(feat.rows)}]
        X == Transform(categories, feat.rows)
        scores == [i \in 1..Len(X) |-> ScoreRow(X, X[i])]
    IN  IF ~((cat_features \cup num_features) \subseteq Range(feat.cols)) THEN Raise("ValueError")
        ELSE IF Len(feat.rows) = 0 THEN Raise("ValueError")
        ELSE IF strict /\ HasNaN(X) THEN Raise("ValueError")
        ELSE Ok([fitted |-> TRUE,
                 contamination |-> p.contamination,
                 n_estimators |-> p.n_estimators,
                 categories |-> categories,
                 train |-> X,
                 offset |-> Percentile1000(scores, p.contamination)])

\* named_steps["model"].score_samples(named_steps["prep"].transform(df_feat))
PipelineScore(p, feat, strict) ==
    IF ~p.fitted THEN Raise("NotFittedError")
    ELSE LET X == Transform(p.categories, feat.rows)
         IN  IF Len(X) = 0 THEN Raise("ValueError")
             ELSE IF strict /\ HasNaN(X) THEN Raise("ValueError")
             ELSE Ok([X |-> X, scores |-> [i \in 1..Len(X) |-> ScoreRow(p.train, X[i])]])

\* a variant of the labelling that also labels a row scoring exactly the
\* offset an outlier
PipelinePredictInclusive(p, scores) ==
    [i \in 1..Len(scores) |-> IF 1000 * scores[i] <= p.offset THEN -1 ELSE 1]

\* named_steps["model"].predict(...): -1 for a row scoring below the offset
PipelinePredict(p, scores) ==
    [i \in 1..Len(scores) |-> IF 1000 * scores[i] < p.offset THEN -1 ELSE 1]

RECURSIVE MaxSeq(_)
MaxSeq(s) == IF Len(s) = 1 THEN s[1]
             ELSE LET m == MaxSeq(Tail(s)) IN IF Head(s) > m THEN Head(s) ELSE m

RECURSIVE MinSeq(_)
MinSeq(s) == IF Len(s) = 1 THEN s[1]
             ELSE LET m == MinSeq(Tail(s)) IN IF Head(s) < m THEN Head(s) ELSE m

\* a variant of the risk scaling that multiplies the distance from the batch
\* minimum by 100 without dividing by the batch range
RiskScoresUnscaled(scores) ==
    [i \in 1..Len(scores) |-> 10000 * (MaxSeq(scores) - scores[i])]

\* raw = -scores; risk = (raw - raw.min()) / (raw.max() - raw.min() + 1e-9) * 100,
\* rounded to two decimals (hundredths)
RiskScores(scores) ==
    LET hi == MaxSeq(scores)
        lo == MinSeq(scores)
        d == hi - lo
    IN  [i \in 1..Len(scores) |->
            IF d = 0 THEN 0 ELSE (20000 * (hi - scores[i]) + d - 1) \div (2 * d)]


(***************************************************************************)
(* AnomalyDetector                                                         *)
(***************************************************************************)
\* __init__(contamination, n_estimators = 300)
AnomalyDetector(c) ==
    [contamination |-> c, n_estimators |-> N_ESTIMATORS,
     pipeline |-> None, feature_columns |-> None]

\* a method call's effect: the detector afterwards and what the call gave back
Effect(d, out) == [det |-> d, out |-> out]

\* df_scored = df.copy(); df_scored[name] = columns[name] for each name in turn
SetCols(t, names, columns) ==
    LET cols == AppendNew(t.cols, names)
        added == Range(names)
    IN  Table(cols, [i \in 1..Len(t.rows) |->
                        [k \in Range(cols) |->
                            IF k \in added THEN columns[k][i] ELSE t.rows[i][k]]])

fit_and_score(d, t, strict) ==
    LET eng == engineer_features(t)
        built == [d EXCEPT !.pipeline = build_pipeline(d)]
    IN  IF ~eng.ok THEN Effect(d, eng)
        ELSE LET fit == PipelineFit(built.pipeline, eng.val, strict)
             IN  IF ~fit.ok THEN Effect(built, fit)
                 ELSE LET fitted == [built EXCEPT !.pipeline = fit.val,
                                                  !.feature_columns = Columns(eng.val.cols)]
                          sc == PipelineScore(fit.val, eng.val, strict)
                      IN  IF ~sc.ok THEN Effect(fitted, sc)
                          ELSE LET preds == PipelinePredict(fit.val, sc.val.scores)
                                   risk == RiskScores(sc.val.scores)
                                   added == [risk_score |-> risk,
                                             anomaly_flag |-> [i \in 1..Len(preds) |-> preds[i] = -1],
                                             hour |-> ColumnOf(eng.val.rows, "hour"),
                                             dayofweek |-> ColumnOf(eng.val.rows, "dayofweek"),
                                             is_weekend |-> ColumnOf(eng.val.rows, "is_weekend"),
                                             is_after_hours |-> ColumnOf(eng.val.rows, "is_after_hours")]
                               IN  Effect(fitted,
                                          Ok([pipeline |-> fit.val,
                                              X |-> sc.val.X,
                                              scored |-> SetCols(t, <<"risk_score", "anomaly_flag", "hour",
                                                                       "dayofweek", "is_weekend",
                                                                       "is_after_hours">>, added)]))

\* for feature in missing_features: df_feat[feature] = 0, and then
\* df_feat = df_feat[self.feature_columns]
Reconcile(t, feature_columns) ==
    LET have == Range(t.cols)
    IN  Table(feature_columns,
              [i \in 1..Len(t.rows) |->
                  [c \in Range(feature_columns) |-> IF c \in have THEN t.rows[i][c] ELSE 0]])

\* a variant of predict_new_data that fits the detector itself when it has
\* no pipeline yet, instead of refusing
predict_new_data_autofit(d, t, strict) ==
    LET e == fit_and_score(d, t, strict)
    IN  IF d.pipeline # None THEN Effect(d, Raise("NotImplemented"))
        ELSE IF ~e.out.ok THEN e
        ELSE Effect(e.det, Ok([X |-> e.out.val.X, scored |-> e.out.val.scored]))

\* a variant of predict_new_data that refits the pipeline on the batch it is
\* asked to score
predict_new_data_refit(d, t, strict) ==
    LET e == fit_and_score(d, t, strict)
    IN  IF d.pipeline = None THEN Effect(d, Raise("ValueError"))
        ELSE IF ~e.out.ok THEN e
        ELSE Effect(e.det, Ok([X |-> e.out.val.X, scored |-> e.out.val.scored]))

predict_new_data(d, t, strict) ==
    IF d.pipeline = None THEN Effect(d, Raise("ValueError"))
    ELSE LET eng == engineer_features(t)
         IN  IF ~eng.ok THEN Effect(d, eng)
             ELSE IF d.feature_columns = None THEN Effect(d, Raise("TypeError"))
             ELSE LET feat == Reconcile(eng.val, d.feature_columns.list)
                      sc == PipelineScore(d.pipeline, feat, strict)
                  IN  IF ~sc.ok THEN Effect(d, sc)
                      ELSE LET preds == PipelinePredict(d.pipeline, sc.val.scores)
                               risk == RiskScores(sc.val.scores)
                               added == [risk_score |-> risk,
                                         anomaly_flag |-> [i \in 1..Len(preds) |-> preds[i] = -1]]
                           IN  Effect(d, Ok([X |-> sc.val.X,
                                             scored |-> SetCols(t, <<"risk_score", "anomaly_flag">>, added)]))

\* the dictionary save_model hands to joblib.dump
Bundle(d) ==
    [pipeline |-> d.pipeline,
     feature_columns |-> d.feature_columns,
     contamination |-> d.contamination,
     n_estimators |-> d.n_estimators]

\* how a file write ends: completely, refused before anything was written,
\* or broken off after the file was opened (the file is left truncated)
IoOutcomes == {"ok", "denied", "truncated"}

\* save_model: the file afterwards and the outcome (joblib.dump writes in place)
save_model(d, file, io) ==
    IF d.pipeline = None THEN [file |-> file, out |-> Raise("ValueError")]
    ELSE IF io = "denied" THEN [file |-> file, out |-> Raise("OSError")]
    ELSE IF io = "truncated" THEN [file |-> Corrupt, out |-> Raise("OSError")]
    ELSE [file |-> Bundle(d), out |-> Ok(None)]

\* a variant of load_model's assignments that takes over the pipeline and
\* its columns but keeps the hyperparameters the detector was constructed with
RestorePipelineOnly(d, model_data) ==
    [d EXCEPT !.pipeline = model_data.pipeline,
              !.feature_columns = model_data.feature_columns]

\* the assignments load_model makes from the loaded dictionary
Restore(d, model_data) ==
    [d EXCEPT !.pipeline = model_data.pipeline,
              !.feature_columns = model_data.feature_columns,
              !.contamination = model_data.contamination,
              !.n_estimators = model_data.n_estimators]

\* load_model: every exception of joblib.load is caught and logged
load_model(d, file) ==
    IF file = Absent THEN Effect(d, Ok(FALSE))
    ELSE IF file = Corrupt THEN Effect(d, Ok(FALSE))
    ELSE Effect(Restore(d, file), Ok(TRUE))


(***************************************************************************)
(* Input domains                                                           *)
(***************************************************************************)
Users == {"employee101", "employee987"}

\* Wednesday 13:00 and Saturday 03:00
WorkTime == [day |-> 2, hour |-> 13, minute |-> 0]
NightTime == [day |-> 5, hour |-> 3, minute |-> 0]

\* a 0.5 MB PDF viewed in working hours, a 60 MB image downloaded at night
Kinds ==
    {[file_type |-> "PDF", file_size_MB |-> 5, access_time |-> WorkTime, action |-> "view"],
     [file_type |-> "Image", file_size_MB |-> 600, access_time |-> NightTime, action |-> "download"]}

Event(id, user, kind) ==
    [event_id |-> id, user_id |-> user, file_type |-> kind.file_type,
     file_size_MB |-> kind.file_size_MB, access_time |-> kind.access_time,
     action |-> kind.action]

\* the events row i of a batch is drawn from: any user and kind in the first
\* two rows, routine PDF views of employee101 after them
RowChoices(i) ==
    IF i <= 2 THEN Users \X Kinds
    ELSE {<<"employee101", CHOOSE k \in Kinds : k.file_type = "PDF">>}

\* the event tables of n rows; event ids are first + 1 .. first + n
TablesOfLen(n, first) ==
    {Table(EventCols, [i \in 1..n |-> Event(first + i, uk[i][1], uk[i][2])]) :
        uk \in {f \in [1..n -> Users \X Kinds] : \A i \in 1..n : f[i] \in RowChoices(i)}}

Batches == UNION {TablesOfLen(n, 0) : n \in 0..MaxBatch}

\* one-row batches in which one event column is absent
PartialBatches == {DropCol(t, c) : t \in TablesOfLen(1, 0), c \in Range(EventCols)}

\* the tables handed to predict_new_data
PredictInputs == Batches \cup PartialBatches

\* the contamination a directly used detector is constructed with: 0.5
Contaminations == {500}

(***************************************************************************)
(* data_generator.py: DataGenerator.  np.random and random are seeded     *)
(* once at import with RANDOM_SEED; each is a stream of uniform variates. *)
(* A variate is a level q of 0 .. Quantiles - 1 and stands for q /        *)
(* Quantiles in [0, 1).  Generated sizes are in thousandths of a megabyte *)
(* (three decimals); a datetime is a number of minutes.                   *)
(***************************************************************************)
FILE_TYPE_LIST == <<"PDF", "Excel", "Database export", "CSV", "Doc", "PPT", "Image">>
ACTION_LIST == <<"view", "download">>
WORK_START_HOUR == 8
WORK_END_HOUR == 19
TYPICAL_HOUR_MEAN == 13
TypicalHourStdTenths == 25       \* TYPICAL_HOUR_STD = 2.5

Quantiles == Len(FILE_TYPE_LIST)

\* the streams seeding can give: variate i of stream s
Streams == {[start |-> a, step |-> b] : a \in {0, Quantiles - 1}, b \in {0, 3}}
StreamAt(s, i) == (s.start + s.step * i) % Quantiles

MinutesPerDay == 24 * 60
DateTime(d, h, m) == (d * 24 + h) * 60 + m
\* the pandas Timestamp of a datetime: .dt.dayofweek is day % 7, .dt.hour is hour
Timestamp(t) ==
    [day |-> t \div MinutesPerDay, hour |-> (t % MinutesPerDay) \div 60, minute |-> t % 60]
\* a variant of replace that leaves the datetime as it is
ReplaceNothing(t, h, m) == t

\* datetime.replace(hour=h, minute=m)
Replace(t, h, m) == DateTime(t \div MinutesPerDay, h, m)

\* what datetime.now() returns at the two moments the generator is called
ClockTimes == {DateTime(10, 15, 30), DateTime(11, 9, 5)}

\* np.random.randint(low, high): low <= x < high
RandInt(low, high, q) == low + ((high - low) * q) \div Quantiles
\* np.random.uniform(low, high), in thousandths
Uniform(low, high, q) == low + ((high - low) * q) \div Quantiles
\* np.random.normal(mean, std), in tenths: mean - 6 std .. mean + 6 std
Normal(mean10, std10, q) == mean10 + (2 * q - (Quantiles - 1)) * std10
\* np.random.exponential(scale), in thousandths: 0 at level 0, a far tail at the top
Exponential(scale, q) == (scale * (2 ^ q - 1) * 7) \div 9
\* np.clip(x, lo, hi)
Clip(x, lo, hi) == IF x < lo THEN lo ELSE IF x > hi THEN hi ELSE x

\* random.choices(population, weights)[0]: the first item whose cumulative
\* weight exceeds random() * total
CumWeight(weights, k) == SumSeq(SubSeq(weights, 1, k))
Choices(population, weights, q) ==
    population[CHOOSE k \in 1..Len(population) :
                  /\ CumWeight(weights, k) * Quantiles > q * CumWeight(weights, Len(weights))
                  /\ \A j \in 1..(k - 1) :
                        CumWeight(weights, j) * Quantiles <= q * CumWeight(weights, Len(weights))]
\* random.choice(seq): seq[int(random() * len(seq))]
Choice(seq, q) == seq[1 + (Len(seq) * q) \div Quantiles]

\* DataGenerator.__init__
file_type_weights == <<35, 20, 5, 15, 10, 8, 7>>
action_weights == <<75, 25>>

\* f"employee{k}"
Employee(k) == [employee |-> k]
\* the empty string, which Python's `or` treats like None
EmptyString == [empty |-> TRUE]
Truthy(x) == x \notin {None, EmptyString}

\* random_user(), on one np variate
random_user(q) == Employee(RandInt(100, 999, q))

\* str(uuid.uuid4()) for row i: drawn from the operating system's entropy e,
\* not from either seeded stream
Uuid(e, i) == [uuid |-> e, row |-> i]

\* round(float(x), 3) of a size given in ten-thousandths, in thousandths
Round3(x) == (x + 5) \div 10

\* a variant of _generate_file_size that clips the base size and applies the
\* download multiplier afterwards
generate_file_size_clip_first(file_type, action, q) ==
    LET base == IF file_type = "Database export" THEN Exponential(15000, q) + 10000
                ELSE IF file_type \in {"Excel", "PPT", "Doc"} THEN Exponential(3000, q) + 1000
                ELSE IF file_type \in {"PDF", "CSV"} THEN Exponential(2000, q) + 500
                ELSE Exponential(1500, q) + 200
    IN  Clip(base, 100, 120000) * (IF action = "download" THEN 13 ELSE 10)

\* _generate_file_size(file_type, action) on one np variate, in ten-thousandths
generate_file_size(file_type, action, q) ==
    LET base == IF file_type = "Database export" THEN Exponential(15000, q) + 10000
                ELSE IF file_type \in {"Excel", "PPT", "Doc"} THEN Exponential(3000, q) + 1000
                ELSE IF file_type \in {"PDF", "CSV"} THEN Exponential(2000, q) + 500
                ELSE Exponential(1500, q) + 200
        multiplier == IF action = "download" THEN 13 ELSE 10
    IN  Clip(base * multiplier, 1000, 1200000)

\* a variant of the frame construction that loses the first row
DataFrameWithoutFirst(rows) ==
    IF Len(rows) <= 1 THEN Table(<<>>, <<>>) ELSE Table(EventCols, Tail(rows))

\* pd.DataFrame(rows): an empty list of rows gives a frame without columns
DataFrame(rows) == IF rows = <<>> THEN Table(<<>>, <<>>) ELSE Table(EventCols, rows)

\* the start date a generator call uses: the given one, or now - days
StartDate(start_date, now, days) ==
    IF start_date = None THEN now - days * MinutesPerDay ELSE start_date.at

\* generate_normal_events(n, start_date, days) called at time now, with the
\* np stream at position p.np, the random stream at p.py and entropy e
generate_normal_events(n, start_date, days, now, s, p, e) ==
    DataFrame([i \in 1..n |->
        LET np0 == p.np + 5 * (i - 1)
            py0 == p.py + 2 * (i - 1)
            file_type == Choices(FILE_TYPE_LIST, file_type_weights, StreamAt(s.py, py0))
            action == Choices(ACTION_LIST, action_weights, StreamAt(s.py, py0 + 1))
            day_offset == RandInt(0, days, StreamAt(s.np, np0 + 1))
            hour == Clip(Normal(10 * TYPICAL_HOUR_MEAN, TypicalHourStdTenths,
                                StreamAt(s.np, np0 + 2)),
                         10 * WORK_START_HOUR, 10 * WORK_END_HOUR) \div 10
            minute == RandInt(0, 60, StreamAt(s.np, np0 + 3))
        IN  [event_id |-> Uuid(e, i),
             user_id |-> random_user(StreamAt(s.np, np0)),
             file_type |-> file_type,
             file_size_MB |-> Round3(generate_file_size(file_type, action,
                                                        StreamAt(s.np, np0 + 4))),
             access_time |-> Timestamp(StartDate(start_date, now, days)
                                       + day_offset * MinutesPerDay + hour * 60 + minute),
             action |-> action]])

\* _generate_mass_downloads(n, start_date, label_user)
generate_mass_downloads(n, start, label_user, s, p, e) ==
    DataFrame([i \in 1..n |->
        LET np0 == p.np + (IF Truthy(label_user) THEN 0 ELSE 1) + 2 * (i - 1)
            file_type == Choices(<<"PDF", "Database export", "Excel">>, <<70, 20, 10>>,
                                 StreamAt(s.py, p.py + i - 1))
            q == StreamAt(s.np, np0 + 1)
        IN  [event_id |-> Uuid(e, i),
             user_id |-> IF Truthy(label_user) THEN label_user
                         ELSE Employee(RandInt(900, 999, StreamAt(s.np, p.np))),
             file_type |-> file_type,
             file_size_MB |-> Round3(10 * (IF file_type = "Database export"
                                           THEN Uniform(50000, 300000, q)
                                           ELSE IF file_type = "PDF"
                                           THEN Uniform(5000, 50000, q)
                                           ELSE Uniform(10000, 80000, q))),
             access_time |-> Timestamp(Replace(start, 2, 0)
                                       + RandInt(0, 180, StreamAt(s.np, np0))),
             action |-> "download"]])

\* _generate_generic_suspicious(n, start_date, label_user)
generate_generic_suspicious(n, start, label_user, s, p, e) ==
    DataFrame([i \in 1..n |->
        LET own == IF Truthy(label_user) THEN 0 ELSE 1
            np0 == p.np + (3 + own) * (i - 1)
        IN  [event_id |-> Uuid(e, i),
             user_id |-> IF Truthy(label_user) THEN label_user
                         ELSE random_user(StreamAt(s.np, np0)),
             file_type |-> Choice(FILE_TYPE_LIST, StreamAt(s.py, p.py + i - 1)),
             file_size_MB |-> Round3(10 * Uniform(10000, 150000,
                                                  StreamAt(s.np, np0 + own + 2))),
             access_time |-> Timestamp(Replace(start - RandInt(0, 3, StreamAt(s.np, np0 + own))
                                                       * MinutesPerDay,
                                               3, RandInt(0, 60, StreamAt(s.np, np0 + own + 1)))),
             action |-> "download"]])

\* generate_suspicious_events(n, start_date, label_user, pattern)
generate_suspicious_events(n, start_date, label_user, pattern, now, s, p, e) ==
    IF pattern = "mass_downloads"
    THEN generate_mass_downloads(n, StartDate(start_date, now, 1), label_user, s, p, e)
    ELSE generate_generic_suspicious(n, StartDate(start_date, now, 1), label_user, s, p, e)

\* the variates a generator call consumes from the two streams
NormalDraws(n) == [np |-> 5 * n, py |-> 2 * n]
SuspiciousDraws(n, label_user, pattern) ==
    IF pattern = "mass_downloads"
    THEN [np |-> (IF Truthy(label_user) THEN 0 ELSE 1) + 2 * n, py |-> n]
    ELSE [np |-> (IF Truthy(label_user) THEN 3 ELSE 4) * n, py |-> n]

\* np.random.seed(RANDOM_SEED); random.seed(RANDOM_SEED)
Seeded == [np |-> 0, py |-> 0]

\* the generator has not been used: both streams freshly seeded
GenIdle ==
    /\ stream = [np |-> [start |-> 0, step |-> 0], py |-> [start |-> 0, step |-> 0]]
    /\ drawn = Seeded
    /\ clock = DateTime(10, 15, 30)
    /\ prev = [op |-> "none"]

(***************************************************************************)
(* utils.py: PerformanceMonitor.  Each of its two dictionaries is a        *)
(* function on the operation names: None for a key the dictionary does    *)
(* not hold.  A duration is a difference of two readings of datetime.now() *)
(* (minutes).                                                              *)
(***************************************************************************)
Operations == {"data_loading", "model_training"}

Monitor(st, me) == [start_times |-> st, metrics |-> me]

\* PerformanceMonitor.__init__
NewMonitor == Monitor([o \in Operations |-> None], [o \in Operations |-> None])

Pending(m, operation) == m.start_times[operation] # None

\* start_timer(operation) when datetime.now() reads now
start_timer(m, operation, now) ==
    [m EXCEPT !.start_times[operation] = [at |-> now]]

\* end_timer(operation) when datetime.now() reads now: the monitor afterwards
\* and the duration returned
end_timer(m, operation, now) ==
    IF ~Pending(m, operation) THEN [mon |-> m, out |-> 0]
    ELSE [mon |-> [m EXCEPT !.metrics[operation] =
                                [duration |-> now - m.start_times[operation].at],
                            !.start_times[operation] = None],
          out |-> now - m.start_times[operation].at]

\* get_metrics returns self.metrics.copy(): what the monitor holds after the
\* caller wrote into what it was given
MetricsAfterWrite(me, written) == me

MonitorInit ==
    /\ start_times = NewMonitor.start_times
    /\ metrics = NewMonitor.metrics

\* what an operation reported: st.success / st.warning, or st.error together
\* with the statement that raised
Reported(op, at) == [op |-> op, failed |-> at # "-", at |-> at]

(***************************************************************************)
(* Direct use of one AnomalyDetector                                       *)
(***************************************************************************)
NoCall == [op |-> "none"]

Flags(scored) == ColumnOf(scored.rows, "anomaly_flag")

DetNew(c) ==
    /\ call.op # "predict"
    /\ modelFile = Absent
    /\ det' = AnomalyDetector(c)
    /\ call' = [op |-> "new", pre |-> det]
    /\ trained' = None
    /\ UNCHANGED <<saver, modelFile, finiteCheck>>
    /\ UNCHANGED appVars
    /\ UNCHANGED genVars
    /\ UNCHANGED monVars

\* FeatureEngineer.engineer_features(t), a static method
DetEngineer(t) ==
    /\ call.op \in {"none", "new"}
    /\ call' = [op |-> "engineer", arg |-> t, out |-> engineer_features(t), pre |-> det,
                after |-> IF engineer_features(t).ok
                          THEN CallerTable(t, engineer_features(t).val) ELSE t]
    /\ UNCHANGED <<det, trained, saver, modelFile, finiteCheck>>
    /\ UNCHANGED appVars
    /\ UNCHANGED genVars
    /\ UNCHANGED monVars

DetFit(t) ==
    /\ det.pipeline = None
    /\ modelFile = Absent
    /\ LET e == fit_and_score(det, t, finiteCheck)
       IN  /\ det' = e.det
           /\ call' = [op |-> "fit", arg |-> t, out |-> e.out, pre |-> det,
                       after |-> IF e.out.ok THEN CallerTable(t, e.out.val.scored) ELSE t]
           /\ trained' = IF e.out.ok
                         THEN [arg |-> t, flags |-> Flags(e.out.val.scored)]
                         ELSE None
    /\ UNCHANGED <<saver, modelFile, finiteCheck>>
    /\ UNCHANGED appVars
    /\ UNCHANGED genVars
    /\ UNCHANGED monVars

DetPredict(t) ==
    /\ call.op # "save"
    /\ call.op = "predict" => (trained # None /\ t = trained.arg)
    /\ LET e == predict_new_data(det, t, finiteCheck)
       IN  /\ det' = e.det
           /\ call' = [op |-> "predict", arg |-> t, out |-> e.out, pre |-> det,
                       after |-> IF e.out.ok THEN CallerTable(t, e.out.val.scored) ELSE t]
    /\ UNCHANGED <<trained, saver, modelFile, finiteCheck>>
    /\ UNCHANGED appVars
    /\ UNCHANGED genVars
    /\ UNCHANGED monVars

DetSave(io) ==
    /\ call.op # "predict"
    /\ modelFile \in {Absent, Corrupt}
    /\ LET e == save_model(det, modelFile, io)
       IN  /\ modelFile' = e.file
           /\ call' = [op |-> "save", io |-> io, out |-> e.out, pre |-> det]
           /\ saver' = IF e.out.ok THEN det ELSE saver
    /\ UNCHANGED <<det, trained, finiteCheck>>
    /\ UNCHANGED appVars
    /\ UNCHANGED genVars
    /\ UNCHANGED monVars

\* detector = AnomalyDetector(); detector.load_model()   (as main.py does)
DetLoad ==
    /\ call.op # "predict"
    /\ LET fresh == AnomalyDetector(DEFAULT_CONTAMINATION)
           e == load_model(fresh, modelFile)
       IN  /\ det' = e.det
           /\ call' = [op |-> "load", out |-> e.out, pre |-> fresh]
    /\ trained' = None
    /\ UNCHANGED <<saver, modelFile, finiteCheck>>
    /\ UNCHANGED appVars
    /\ UNCHANGED genVars
    /\ UNCHANGED monVars

AppInit ==
    /\ df = None
    /\ model = None
    /\ df_scored = None
    /\ csv = Absent
    /\ report = Reported("none", "-")
    /\ MonitorInit

DetInit ==
    /\ det \in {AnomalyDetector(c) : c \in Contaminations}
    /\ call = NoCall
    /\ trained = None
    /\ saver = None

InitDet ==
    /\ AppInit
    /\ DetInit
    /\ GenIdle
    /\ modelFile = Absent
    /\ finiteCheck \in BOOLEAN

DetNext ==
    \/ \E c \in Contaminations : DetNew(c)
    \/ \E t \in Batches : DetEngineer(t)
    \/ \E t \in Batches : DetFit(t)
    \/ \E t \in PredictInputs : DetPredict(t)
    \/ \E io \in IoOutcomes : DetSave(io)
    \/ DetLoad

SpecDet == InitDet /\ [][DetNext]_vars


(***************************************************************************)
(* DataGenerator / DataManager                                             *)
(***************************************************************************)
\* 02:00 on the day before the (fixed) current day: base_time of an attack
AttackTime == [day |-> 3, hour |-> 2, minute |-> 0]

\* what _generate_mass_downloads draws per event: a 30 MB PDF or a 200 MB
\* database export, always a download
MassKinds ==
    {[file_type |-> "PDF", file_size_MB |-> 300, access_time |-> AttackTime, action |-> "download"],
     [file_type |-> "Database export", file_size_MB |-> 2000, access_time |-> AttackTime,
      action |-> "download"]}

\* susp_user = label_user or f"employee{randint(900, 999)}"
SuspUsers(label_user) == IF label_user = "" THEN {"employee901"} ELSE {label_user}

\* str(uuid.uuid4()): an id no row of the table carries; ids are numbered on
RECURSIVE LastIdOf(_)
LastIdOf(rows) ==
    IF rows = <<>> THEN 0
    ELSE LET m == LastIdOf(Tail(rows))
         IN  IF Head(rows)["event_id"] > m THEN Head(rows)["event_id"] ELSE m

LastId(t) == LastIdOf(t.rows)

\* the tables generate_suspicious_events(n, label_user, "mass_downloads") can return
MassDownloads(n, label_user, first) ==
    {Table(EventCols, [i \in 1..n |-> Event(first + i, u, ks[i])]) :
        u \in SuspUsers(label_user), ks \in [1..n -> MassKinds]}

\* df.to_csv(path, index=False): the header and one line per row
to_csv(t) == [header |-> t.cols, lines |-> t.rows]

\* pd.read_csv(path, parse_dates=["access_time"])
read_csv(file) == Table(file.header, file.lines)

\* the datasets load_or_generate can synthesize (scaled to InitRows rows):
\* any users, views and downloads alternating
KindAt(i) == CHOOSE k \in Kinds : k.action = (IF i % 2 = 1 THEN "view" ELSE "download")

GeneratedLogs ==
    {Table(EventCols, [i \in 1..InitRows |-> Event(i, u[i], KindAt(i))]) :
        u \in [1..InitRows -> Users]}

(***************************************************************************)
(* AnomalyDetectionApp: one script run per user interaction.  Every run   *)
(* starts with _load_data; the button handlers run only when it returned. *)
(***************************************************************************)
\* what st.session_state.model holds: fit_and_score's first result is the
\* sklearn Pipeline, load_model leaves the AnomalyDetector itself
AsPipeline(p) == [kind |-> "Pipeline", pipeline |-> p]
AsDetector(d) == [kind |-> "AnomalyDetector", pipeline |-> d.pipeline, detector |-> d]

Session(d, m, s) == [df |-> d, model |-> m, df_scored |-> s]

\* a CSV file whose write broke off after the header
Truncated(t) == [header |-> t.cols, lines |-> <<>>]

\* the sizes of the three parts of the initial dataset
InitialNormal == 2500
InitialMass == 120
InitialGeneric == 60

\* a variant of load_or_generate that synthesizes and writes a new dataset
\* whether or not the CSV file exists
load_or_generate_always(file, generated, io) ==
    IF io = "denied" THEN [file |-> file, out |-> Raise("OSError")]
    ELSE IF io = "truncated" THEN [file |-> Truncated(generated), out |-> Raise("OSError")]
    ELSE [file |-> to_csv(generated), out |-> Ok(generated)]

\* DataManager.load_or_generate, given the dataset it would synthesize
load_or_generate(file, generated, io) ==
    IF file # Absent THEN [file |-> file, out |-> Ok(read_csv(file))]
    ELSE IF io = "denied" THEN [file |-> file, out |-> Raise("OSError")]
    ELSE IF io = "truncated" THEN [file |-> Truncated(generated), out |-> Raise("OSError")]
    ELSE [file |-> to_csv(generated), out |-> Ok(generated)]

\* _load_data: the session and the CSV file afterwards, and whether it raised
LoadData(ses, file, mfile, generated, io, strict) ==
    LET lg == IF ses.df = None THEN load_or_generate(file, generated, io)
              ELSE [file |-> file, out |-> Ok(ses.df)]
        s1 == IF lg.out.ok THEN [ses EXCEPT !.df = lg.out.val] ELSE ses
    IN  IF ~lg.out.ok THEN [ses |-> ses, file |-> lg.file, ok |-> FALSE]
        ELSE IF s1.model # None /\ s1.df_scored # None
        THEN [ses |-> s1, file |-> lg.file, ok |-> TRUE]
        ELSE LET detector == AnomalyDetector(DEFAULT_CONTAMINATION)
                 ld == load_model(detector, mfile)
             IN  IF ~ld.out.val
                 THEN LET e == fit_and_score(detector, s1.df, strict)
                      IN  IF ~e.out.ok THEN [ses |-> s1, file |-> lg.file, ok |-> FALSE]
                          ELSE [ses |-> [s1 EXCEPT !.df_scored = e.out.val.scored,
                                                   !.model = AsPipeline(e.out.val.pipeline)],
                                file |-> lg.file, ok |-> TRUE]
                 ELSE LET e == predict_new_data(ld.det, s1.df, strict)
                      IN  IF ~e.out.ok THEN [ses |-> s1, file |-> lg.file, ok |-> FALSE]
                          ELSE [ses |-> [s1 EXCEPT !.df_scored = e.out.val.scored,
                                                   !.model = AsDetector(ld.det)],
                                file |-> lg.file, ok |-> TRUE]

\* detector.save_model() where detector was rebound to fit_and_score's first
\* result: a Pipeline has no save_model attribute
SaveModelOn(obj, mfile, io) ==
    IF obj.kind = "AnomalyDetector" THEN save_model(obj.detector, mfile, io)
    ELSE [file |-> mfile, out |-> Raise("AttributeError")]

\* _retrain_model after line 121, e being what fit_and_score did: publish the
\* result, then save
RetrainPublish(ses, mfile, io, e) ==
    IF ~e.out.ok THEN [ses |-> ses, mfile |-> mfile, report |-> Reported("retrain", "fit")]
    ELSE [ses |-> [ses EXCEPT !.model = AsPipeline(e.out.val.pipeline),
                              !.df_scored = e.out.val.scored],
          mfile |-> SaveModelOn(AsPipeline(e.out.val.pipeline), mfile, io).file,
          report |-> Reported("retrain",
                        IF SaveModelOn(AsPipeline(e.out.val.pipeline), mfile, io).out.ok
                        THEN "-" ELSE "save")]

\* _retrain_model(contamination)
RetrainModel(ses, mfile, c, io, strict) ==
    RetrainPublish(ses, mfile, io, fit_and_score(AnomalyDetector(c), ses.df, strict))

\* DataManager.save_data: the exception of a failed write is logged and re-raised
save_data(t, file, io) ==
    IF io = "denied" THEN [file |-> file, out |-> Raise("OSError")]
    ELSE IF io = "truncated" THEN [file |-> Truncated(t), out |-> Raise("OSError")]
    ELSE [file |-> to_csv(t), out |-> Ok(None)]

\* _simulate_attack after line 158: s1 is the session with the combined log
\* already assigned to df (line 154), e is what fit_and_score did
AttackPublish(s1, file, io, e) ==
    IF ~e.out.ok THEN [ses |-> s1, file |-> file, report |-> Reported("attack", "fit")]
    ELSE [ses |-> [s1 EXCEPT !.model = AsPipeline(e.out.val.pipeline),
                             !.df_scored = e.out.val.scored],
          file |-> save_data(s1.df, file, io).file,
          report |-> Reported("attack",
                        IF save_data(s1.df, file, io).out.ok THEN "-" ELSE "save")]

\* a variant of _simulate_attack that fits the new detector on the appended
\* events alone
SimulateAttackFitNewOnly(ses, file, new_events, io, strict) ==
    AttackPublish([ses EXCEPT !.df = Concat(ses.df, new_events)], file, io,
                  fit_and_score(AnomalyDetector(DEFAULT_CONTAMINATION), new_events, strict))

\* _simulate_attack(user_id, num_events), given the events the generator returned
SimulateAttack(ses, file, new_events, io, strict) ==
    AttackPublish([ses EXCEPT !.df = Concat(ses.df, new_events)], file, io,
                  fit_and_score(AnomalyDetector(DEFAULT_CONTAMINATION),
                                Concat(ses.df, new_events), strict))

(***************************************************************************)
(* The session as a state machine                                          *)
(***************************************************************************)
Loaded == df # None /\ model # None /\ df_scored # None

\* the contamination slider (0.005 .. 0.10) at its upper end
SliderContaminations == {100}

\* the text input "Impersonate User ID (optional)": its default, or left empty
SimUsers == {"employee987", ""}

\* a model artifact left by an earlier direct use of save_model
SeedTable ==
    Table(EventCols,
          <<Event(1, "employee101", CHOOSE k \in Kinds : k.action = "view"),
            Event(2, "employee101", CHOOSE k \in Kinds : k.action = "download")>>)

SeedBundle == Bundle(fit_and_score(AnomalyDetector(500), SeedTable, FALSE).det)

\* a script run whose _load_data has work to do (first run, or after a failure)
Load(generated, io) ==
    /\ ~Loaded
    /\ \E r \in {LoadData(Session(df, model, df_scored), csv, modelFile, generated, io,
                         finiteCheck)} :
           /\ df' = r.ses.df
           /\ model' = r.ses.model
           /\ df_scored' = r.ses.df_scored
           /\ csv' = r.file
           /\ report' = Reported("load", IF r.ok THEN "-" ELSE "load")
    /\ UNCHANGED <<modelFile, finiteCheck>>
    /\ UNCHANGED detVars
    /\ UNCHANGED genVars
    /\ UNCHANGED monVars

\* a run with the "Re-train Model" button pressed
Retrain(c, io) ==
    /\ Loaded
    /\ \E r \in {RetrainModel(Session(df, model, df_scored), modelFile, c, io, finiteCheck)} :
           /\ df' = r.ses.df
           /\ model' = r.ses.model
           /\ df_scored' = r.ses.df_scored
           /\ modelFile' = r.mfile
           /\ report' = r.report
    /\ UNCHANGED <<csv, finiteCheck>>
    /\ UNCHANGED detVars
    /\ UNCHANGED genVars
    /\ UNCHANGED monVars

\* a run with the "Simulate Attack" button pressed
Simulate(user_id, num_events, io) ==
    /\ Loaded
    /\ Len(df.rows) + num_events <= MaxLog
    /\ \E new_events \in MassDownloads(num_events, user_id, LastId(df)) :
          \E r \in {SimulateAttack(Session(df, model, df_scored), csv, new_events, io,
                                  finiteCheck)} :
              /\ df' = r.ses.df
              /\ model' = r.ses.model
              /\ df_scored' = r.ses.df_scored
              /\ csv' = r.file
              /\ report' = r.report
    /\ UNCHANGED <<modelFile, finiteCheck>>
    /\ UNCHANGED detVars
    /\ UNCHANGED genVars
    /\ UNCHANGED monVars

\* the browser session ends; the next run starts from an empty session state
NewSession ==
    /\ df # None
    /\ df' = None
    /\ model' = None
    /\ df_scored' = None
    /\ report' = Reported("none", "-")
    /\ UNCHANGED <<csv, modelFile, finiteCheck>>
    /\ UNCHANGED detVars
    /\ UNCHANGED genVars
    /\ UNCHANGED monVars

Init ==
    /\ AppInit
    /\ DetInit
    /\ GenIdle
    /\ modelFile \in {Absent, SeedBundle}
    /\ finiteCheck \in BOOLEAN

Next ==
    \/ \E g \in GeneratedLogs, io \in IoOutcomes : Load(g, io)
    \/ \E c \in SliderContaminations, io \in IoOutcomes : Retrain(c, io)
    \/ \E u \in SimUsers, n \in 1..MaxAttack, io \in IoOutcomes : Simulate(u, n, io)
    \/ NewSession

Spec == Init /\ [][Next]_vars

(***************************************************************************)
(* The generator under direct use (test_app style): calls of              *)
(* generate_normal_events and generate_suspicious_events, seeding again,  *)
(* and time passing between calls                                          *)
(***************************************************************************)
MaxGen == 2        \* largest n a generator call is given

StartDates == {None, [at |-> DateTime(10, 0, 0)], [at |-> DateTime(10, 15, 30)]}
GenDays == {1, 2}
LabelUsers == {None, EmptyString, Employee(987)}
Patterns == {"mass_downloads", "generic"}
Entropy == 1..2

\* the call before this one, kept when it had the same arguments
Previous(op, args) == IF call.op = op /\ call.args = args THEN call ELSE NoCall

\* a behaviour is one generator call and, possibly after seeding again or
\* some time, the same call once more
MayCall(op, args) == call = NoCall \/ (prev = NoCall /\ Previous(op, args) = call)

GenNormal(n, start_date, days, e) ==
    /\ MayCall("normal", [n |-> n, start_date |-> start_date, days |-> days])
    /\ call' = [op |-> "normal",
                args |-> [n |-> n, start_date |-> start_date, days |-> days],
                at |-> drawn,
                now |-> clock,
                out |-> generate_normal_events(n, start_date, days, clock, stream, drawn, e)]
    /\ prev' = Previous("normal", [n |-> n, start_date |-> start_date, days |-> days])
    /\ drawn' = [np |-> drawn.np + NormalDraws(n).np, py |-> drawn.py + NormalDraws(n).py]
    /\ UNCHANGED <<stream, clock, det, trained, saver, modelFile, finiteCheck>>
    /\ UNCHANGED appVars
    /\ UNCHANGED monVars

GenSuspicious(n, start_date, label_user, pattern, e) ==
    /\ MayCall("suspicious",
               [n |-> n, start_date |-> start_date, label_user |-> label_user,
                pattern |-> pattern])
    /\ call' = [op |-> "suspicious",
                args |-> [n |-> n, start_date |-> start_date, label_user |-> label_user,
                          pattern |-> pattern],
                at |-> drawn,
                now |-> clock,
                out |-> generate_suspicious_events(n, start_date, label_user, pattern,
                                                   clock, stream, drawn, e)]
    /\ prev' = Previous("suspicious",
                        [n |-> n, start_date |-> start_date, label_user |-> label_user,
                         pattern |-> pattern])
    /\ drawn' = [np |-> drawn.np + SuspiciousDraws(n, label_user, pattern).np,
                 py |-> drawn.py + SuspiciousDraws(n, label_user, pattern).py]
    /\ UNCHANGED <<stream, clock, det, trained, saver, modelFile, finiteCheck>>
    /\ UNCHANGED appVars
    /\ UNCHANGED monVars

\* np.random.seed(RANDOM_SEED); random.seed(RANDOM_SEED) applied again
Reseed ==
    /\ drawn # Seeded
    /\ prev = NoCall
    /\ drawn' = Seeded
    /\ UNCHANGED <<stream, clock, prev>>
    /\ UNCHANGED detVars
    /\ UNCHANGED <<modelFile, finiteCheck>>
    /\ UNCHANGED appVars
    /\ UNCHANGED monVars

\* time passes between two calls
Tick ==
    /\ call # NoCall
    /\ prev = NoCall
    /\ \E t \in ClockTimes : t > clock /\ clock' = t
    /\ UNCHANGED <<stream, drawn, prev>>
    /\ UNCHANGED detVars
    /\ UNCHANGED <<modelFile, finiteCheck>>
    /\ UNCHANGED appVars
    /\ UNCHANGED monVars

InitGen ==
    /\ AppInit
    /\ DetInit
    /\ modelFile = Absent
    /\ finiteCheck = FALSE
    /\ stream \in [np : Streams, py : Streams]
    /\ drawn = Seeded
    /\ clock = DateTime(10, 15, 30)
    /\ prev = NoCall

NextGen ==
    \/ \E n \in 0..MaxGen, sd \in StartDates, d \in GenDays, e \in Entropy :
          GenNormal(n, sd, d, e)
    \/ \E n \in 0..MaxGen, sd \in StartDates, u \in LabelUsers, pt \in Patterns, e \in Entropy :
          GenSuspicious(n, sd, u, pt, e)
    \/ Reseed
    \/ Tick

SpecGen == InitGen /\ [][NextGen]_vars

(***************************************************************************)
(* utils.py: DataValidator.  A cell of a prediction column is a number, a *)
(* boolean or a string; a column has a numeric (boolean) dtype when all   *)
(* its cells are numbers (booleans).                                       *)
(***************************************************************************)
NumCell(n) == [num |-> n]
BoolCell(b) == [bool |-> b]
StrCell(x) == [str |-> x]

\* pd.api.types.is_numeric_dtype / is_bool_dtype of a column of cells
IsNumericDtype(col) == \A i \in 1..Len(col) : DOMAIN col[i] = {"num"}
IsBoolDtype(col) == \A i \in 1..Len(col) : DOMAIN col[i] = {"bool"}

\* df.empty: no rows or no columns
IsEmpty(t) == Len(t.rows) = 0 \/ Len(t.cols) = 0

required_columns == EventCols

\* [col for col in required_columns if col not in df.columns]
MissingRequired(t) == SelectSeq(required_columns, LAMBDA c : ~HasCol(t, c))

\* validate_dataframe(df): the is_valid flag, the errors and the warnings, for
\* tables whose access_time is a datetime column, whose file_size_MB is
\* numeric and which hold no nulls
validate_dataframe(t) ==
    [is_valid |-> MissingRequired(t) = <<>> /\ ~IsEmpty(t),
     errors |-> (IF MissingRequired(t) # <<>> THEN <<"Missing required columns">> ELSE <<>>)
                \o (IF IsEmpty(t) THEN <<"DataFrame is empty">> ELSE <<>>),
     warnings |-> <<>>]

\* risk_scores.min() < 0 or risk_scores.max() > 100 (hundredths)
OutOfRange(col) == \E i \in 1..Len(col) : col[i].num < 0 \/ col[i].num > 10000

\* validate_ml_predictions(df)
validate_ml_predictions(t) ==
    IF ~HasCol(t, "risk_score") \/ ~HasCol(t, "anomaly_flag")
    THEN [is_valid |-> FALSE,
          errors |-> (IF ~HasCol(t, "risk_score") THEN <<"Missing risk_score column">>
                      ELSE <<>>)
                     \o (IF ~HasCol(t, "anomaly_flag") THEN <<"Missing anomaly_flag column">>
                         ELSE <<>>),
          warnings |-> <<>>]
    ELSE [is_valid |-> TRUE,
          errors |-> IF ~IsNumericDtype(ColumnOf(t.rows, "risk_score"))
                     THEN <<"risk_score column is not numeric">> ELSE <<>>,
          warnings |-> (IF IsNumericDtype(ColumnOf(t.rows, "risk_score"))
                           /\ OutOfRange(ColumnOf(t.rows, "risk_score"))
                        THEN <<"risk_score values outside expected range [0, 100]">>
                        ELSE <<>>)
                       \o (IF ~IsBoolDtype(ColumnOf(t.rows, "anomaly_flag"))
                           THEN <<"anomaly_flag column is not boolean type">> ELSE <<>>)]

MaxScored == 2     \* rows of a table handed to validate_ml_predictions

\* the columns of s, in the order of the sequence cols
Sub(cols, s) == SelectSeq(cols, LAMBDA c : c \in s)

\* event tables of at most one row, with any subset of the event columns
DataTables ==
    {Project(t, Sub(EventCols, s)) :
        t \in TablesOfLen(0, 0) \cup TablesOfLen(1, 0), s \in SUBSET Range(EventCols)}

\* risk scores 0.00, 50.00, 150.00, -1.00 and a string; flags True, False and
\* the integer 1
RiskCells == {NumCell(0), NumCell(5000), NumCell(15000), NumCell(0 - 100), StrCell("high")}
FlagCells == {BoolCell(TRUE), BoolCell(FALSE), NumCell(1)}

PredictionTables ==
    {Project(Table(<<"risk_score", "anomaly_flag">>,
                   [i \in 1..n |-> [risk_score |-> c[i][1], anomaly_flag |-> c[i][2]]]),
             Sub(<<"risk_score", "anomaly_flag">>, s)) :
        n \in 0..MaxScored, c \in [1..MaxScored -> RiskCells \X FlagCells],
        s \in SUBSET {"risk_score", "anomaly_flag"}}

ValidateData(t) ==
    /\ call = NoCall
    /\ call' = [op |-> "validate_dataframe", arg |-> t, out |-> validate_dataframe(t)]
    /\ UNCHANGED <<det, trained, saver, modelFile, finiteCheck>>
    /\ UNCHANGED appVars
    /\ UNCHANGED genVars
    /\ UNCHANGED monVars

ValidatePredictions(t) ==
    /\ call = NoCall
    /\ call' = [op |-> "validate_ml_predictions", arg |-> t,
                out |-> validate_ml_predictions(t)]
    /\ UNCHANGED <<det, trained, saver, modelFile, finiteCheck>>
    /\ UNCHANGED appVars
    /\ UNCHANGED genVars
    /\ UNCHANGED monVars

InitVal ==
    /\ AppInit
    /\ DetInit
    /\ GenIdle
    /\ modelFile = Absent
    /\ finiteCheck = FALSE

NextVal ==
    \/ \E t \in DataTables : ValidateData(t)
    \/ \E t \in PredictionTables : ValidatePredictions(t)

SpecVal == InitVal /\ [][NextVal]_vars


(***************************************************************************)
(* Properties of the session (specification Spec)                         *)
(***************************************************************************)
EventIds(t) == ColumnOf(t.rows, "event_id")

\* row i of the scored table carries the flag the pipeline p gives row i of
\* the event table t
FlaggedBy(p, t, scored) ==
    LET feat == engineer_features(t).val.rows
    IN  \A i \in 1..Len(t.rows) :
            scored.rows[i]["anomaly_flag"] =
                (1000 * ScoreRow(p.train, EncodeRow(p.categories, feat[i])) < p.offset)

\* C1: once the session is loaded, the scored table has exactly the rows of the
\* active event log, in order, and carries the flags the active model gives
\* them: no operation, failed or not, leaves a partly replaced triple
C1_TripleConsistent ==
    Loaded => /\ EventIds(df_scored) = EventIds(df)
              /\ model.pipeline.fitted
              /\ FlaggedBy(model.pipeline, df, df_scored)

\* the pipeline p was fitted on every row of the event table t, and on
\* nothing else
FittedOnWholeLog(p, t) ==
    /\ p.fitted
    /\ Len(p.train) = Len(t.rows)
    /\ \A f \in cat_features : p.categories[f] = {t.rows[i][f] : i \in 1..Len(t.rows)}
    /\ \A i \in 1..Len(t.rows) :
          /\ p.train[i]["user_id"] = t.rows[i]["user_id"]
          /\ p.train[i]["file_size_MB"] = t.rows[i]["file_size_MB"]
          /\ p.train[i]["file_type"] = t.rows[i]["file_type"]

\* C2: after a retrain or a simulated attack whose fit went through, the active
\* model is the pipeline of a new detector (requested contamination for a
\* retrain, the default for an attack, 300 estimators) fitted on every row of
\* the current event log, the appended events included
C2_FreshFitOnWholeLog ==
    (report.op \in {"retrain", "attack"} /\ report.at # "fit") =>
        /\ model.kind = "Pipeline"
        /\ FittedOnWholeLog(model.pipeline, df)
        /\ model.pipeline.n_estimators = N_ESTIMATORS
        /\ model.pipeline.contamination =
              (IF report.op = "retrain" THEN CHOOSE c \in SliderContaminations : TRUE
               ELSE DEFAULT_CONTAMINATION)

\* an attack went through on a session whose previous model was a retrained one
\* or a loaded one, and the log now holds more than the initial dataset
C2_Witness ==
    /\ report.op = "attack"
    /\ report.at # "fit"
    /\ Len(df.rows) > InitRows
    /\ model.pipeline.contamination = DEFAULT_CONTAMINATION


(***************************************************************************)
(* Properties of a detector under direct use (specification SpecDet)      *)
(***************************************************************************)
\* the detector holds a fitted pipeline (fit_and_score or load_model went through)
IsFitted(d) == d.pipeline # None /\ d.pipeline.fitted

\* C4: predict_new_data on a detector that was never fitted and never loaded
\* (no pipeline, or only the unfitted one a failed fit left) raises, returns no
\* scored table and leaves the detector as it was
C4_PredictUnfittedFails ==
    (call.op = "predict" /\ ~IsFitted(call.pre)) => (~call.out.ok /\ det = call.pre)

\* predict_new_data was called with a non-empty full batch on a detector
\* without a pipeline, and raised the "must be fitted" ValueError
C4_Witness ==
    /\ call.op = "predict"
    /\ call.pre.pipeline = None
    /\ Len(call.arg.rows) > 0
    /\ call.arg.cols = EventCols
    /\ ~call.out.ok
    /\ call.out.err = "ValueError"

\* C5: engineer_features and fit_and_score on a batch of zero rows raise; they
\* return no feature table or scored table and leave no fitted pipeline
C5_EmptyBatchRaises ==
    (call.op \in {"engineer", "fit"} /\ Len(call.arg.rows) = 0) =>
        (~call.out.ok /\ ~IsFitted(det))

\* C6: load_model on a file that exists but cannot be deserialized raises to
\* its caller (an absent file gives False without raising)
C6_CorruptArtifactRaises ==
    (call.op = "load" /\ modelFile = Corrupt) => ~call.out.ok

\* the fit-time columns the batch t lacks
MissingColumns(d, t) == Range(d.feature_columns.list) \ (Range(t.cols) \cup Range(EngineeredCols))

\* C7: predict_new_data on a fitted detector with a batch that lacks a fit-time
\* column completes with a scored table, whichever column is missing (stated
\* for builds whose ensemble accepts NaN, so that only the missing column is
\* in play)
C7_MissingColumnNeverRaises ==
    (/\ call.op = "predict"
     /\ IsFitted(call.pre)
     /\ ~finiteCheck
     /\ MissingColumns(call.pre, call.arg) # {}) => call.out.ok

\* the batch t has a row whose file_type, action or user_id the pipeline of d
\* did not see at fit time
HasUnseenCategory(d, t) ==
    /\ cat_features \subseteq Range(t.cols)
    /\ \E i \in 1..Len(t.rows) : \E f \in cat_features :
          t.rows[i][f] \notin d.pipeline.categories[f]

\* C8: predict_new_data on a fitted detector with a batch holding an unseen
\* file_type, action or user_id completes, and every numeric feature handed to
\* the ensemble is a defined number
C8_UnseenCategoryScored ==
    (/\ call.op = "predict"
     /\ IsFitted(call.pre)
     /\ call.arg.cols = EventCols
     /\ HasUnseenCategory(call.pre, call.arg)) =>
        (call.out.ok /\ ~HasNaN(call.out.val.X))

\* the detector is one that load_model filled from the file saver wrote
LoadedFromSaver ==
    /\ saver # None
    /\ modelFile = Bundle(saver)
    /\ trained = None
    /\ call.op \in {"load", "predict"}

\* C9: after save_model and load_model on a fresh detector, the loaded detector
\* has the saver's contamination, n_estimators, feature-column list and fitted
\* pipeline, and predict_new_data gives on any batch what the saver gives
C9_RoundTrip ==
    LoadedFromSaver =>
        /\ det.contamination = saver.contamination
        /\ det.n_estimators = saver.n_estimators
        /\ det.feature_columns = saver.feature_columns
        /\ det.pipeline = saver.pipeline
        /\ call.op = "predict" =>
              call.out = predict_new_data(saver, call.arg, finiteCheck).out

\* a loaded detector scored a non-empty batch, and the saver's contamination
\* is not the one a fresh detector starts with
C9_Witness ==
    /\ LoadedFromSaver
    /\ call.op = "predict"
    /\ call.out.ok
    /\ saver.contamination # DEFAULT_CONTAMINATION
    /\ \E i \in 1..Len(call.arg.rows) : call.out.val.scored.rows[i]["anomaly_flag"]

\* C10: predict_new_data leaves the detector (pipeline, offset, feature-column
\* list, hyperparameters) as it was, and on the detector's own training batch
\* it completes and gives every row the flag fit_and_score gave it
C10_PredictNeverRefits ==
    call.op = "predict" =>
        /\ det = call.pre
        /\ (trained # None /\ call.arg = trained.arg) =>
              (call.out.ok /\ Flags(call.out.val.scored) = trained.flags)

\* the training batch was scored again after another batch had been scored,
\* and some row of it is flagged
C10_Witness ==
    /\ call.op = "predict"
    /\ trained # None
    /\ call.arg = trained.arg
    /\ call.out.ok
    /\ \E i \in 1..Len(trained.flags) : trained.flags[i]
    /\ \E i \in 1..Len(trained.flags) : ~trained.flags[i]


\* the risk_score column of a scored table
RiskColumn(scored) == [i \in 1..Len(scored.rows) |-> scored.rows[i]["risk_score"]]

\* C11: every risk_score written by fit_and_score or predict_new_data on a
\* non-empty batch lies in [0, 100] (0 .. 10000 hundredths), also for a batch
\* of one row and for a batch whose raw scores are all equal
C11_RiskScoreInRange ==
    (call.op \in {"fit", "predict"} /\ call.out.ok /\ Len(call.arg.rows) > 0) =>
        \A i \in 1..Len(call.arg.rows) :
            /\ RiskColumn(call.out.val.scored)[i] >= 0
            /\ RiskColumn(call.out.val.scored)[i] <= 10000

\* a fitted detector scored a batch of one row: max - min = 0 and the row's
\* risk_score is 0
C11_Witness ==
    /\ call.op = "predict"
    /\ call.out.ok
    /\ Len(call.arg.rows) = 1
    /\ RiskColumn(call.out.val.scored) = <<0>>
    /\ trained # None
    /\ \E i \in 1..Len(trained.flags) : trained.flags[i]


\* C16: a persistence I/O failure propagates as an error to the caller of the
\* operation that triggered it: save_model raises when its write fails, and
\* load_model raises when the artifact it reads cannot be deserialized
C16_IoFailurePropagates ==
    /\ (call.op = "save" /\ call.io # "ok") => ~call.out.ok
    /\ (call.op = "load" /\ modelFile = Corrupt) => ~call.out.ok

\* C17: the model artifact is replaced as a whole: whatever happens to a
\* save_model, a reader finds no file, or a complete bundle, never a partly
\* written one
C17_WholeFileReplace == modelFile # Corrupt

\* C18: fit_and_score and predict_new_data both return the input columns with
\* exactly two columns appended, risk_score and anomaly_flag
C18_SameScoredSchema ==
    (call.op \in {"fit", "predict"} /\ call.out.ok) =>
        call.out.val.scored.cols = call.arg.cols \o <<"risk_score", "anomaly_flag">>

(***************************************************************************)
(* Properties of the generator (specification SpecGen)                     *)
(***************************************************************************)
\* the last two generator calls had the same arguments and each started from
\* freshly seeded streams
SameSeedSameParameters == prev # NoCall /\ prev.at = Seeded /\ call.at = Seeded

\* C12: two runs of generate_normal_events or generate_suspicious_events with
\* the same seed and the same parameters return row-for-row identical tables
\* in every column, event_id and access_time included
C12_GenerationDeterministic == SameSeedSameParameters => call.out = prev.out

\* the datetime a Timestamp stands for
Minutes(ts) == DateTime(ts.day, ts.hour, ts.minute)

\* the rows of the table the last generator call returned
OutRows == call.out.rows

\* C13: every event of generate_normal_events, for every start_date and for
\* the default one taken from the clock, has its hour of day within
\* [WORK_START_HOUR, WORK_END_HOUR] and its access_time within [start date,
\* start date + days), so that engineer_features gives it is_after_hours = 0
C13_NormalEventsInWorkHours ==
    call.op = "normal" =>
        \A i \in 1..Len(OutRows) :
            /\ OutRows[i]["access_time"].hour >= WORK_START_HOUR
            /\ OutRows[i]["access_time"].hour <= WORK_END_HOUR
            /\ Minutes(OutRows[i]["access_time"])
                  >= StartDate(call.args.start_date, call.now, call.args.days)
            /\ Minutes(OutRows[i]["access_time"])
                  < StartDate(call.args.start_date, call.now, call.args.days)
                      + call.args.days * MinutesPerDay
            /\ IsAfterHours(OutRows[i]["access_time"].hour) = 0

\* the last call was generate_suspicious_events with pattern mass_downloads
MassCall == call.op = "suspicious" /\ call.args.pattern = "mass_downloads"

\* C14: every event of generate_suspicious_events with pattern mass_downloads
\* is a download, all events of one call belong to one user (the target user
\* when a non-empty one is given), and access_time lies in 02:00 .. 05:00 of
\* the start date
C14_MassDownloadsShape ==
    MassCall =>
        \A i \in 1..Len(OutRows) :
            /\ OutRows[i]["action"] = "download"
            /\ OutRows[i]["user_id"] = OutRows[1]["user_id"]
            /\ Truthy(call.args.label_user) => OutRows[i]["user_id"] = call.args.label_user
            /\ Minutes(OutRows[i]["access_time"])
                  >= Replace(StartDate(call.args.start_date, call.now, 1), 2, 0)
            /\ Minutes(OutRows[i]["access_time"])
                  < Replace(StartDate(call.args.start_date, call.now, 1), 5, 0)

\* a mass_downloads call without a target user returned two events at
\* different times of the window, from a start date that is not midnight
C14_Witness ==
    /\ MassCall
    /\ call.args.label_user = None
    /\ call.args.start_date = None
    /\ Len(OutRows) = 2
    /\ OutRows[1]["access_time"] # OutRows[2]["access_time"]

\* C15: every event of generate_normal_events has file_size_MB in [0.1, 120]
\* (100 .. 120000 thousandths), for every file type and both actions
C15_NormalSizesInRange ==
    call.op = "normal" =>
        \A i \in 1..Len(OutRows) :
            /\ OutRows[i]["file_size_MB"] >= 100
            /\ OutRows[i]["file_size_MB"] <= 120000

\* a normal call returned a download whose size was clipped to 120 MB
C15_Witness ==
    /\ call.op = "normal"
    /\ \E i \in 1..Len(OutRows) :
          /\ OutRows[i]["action"] = "download"
          /\ OutRows[i]["file_size_MB"] = 120000

\* C20: for n >= 1 both generators return exactly n rows with the six event
\* columns, file_type and action from the fixed category sets, and
\* validate_dataframe reports the dataset valid with no errors
C20_GeneratedDatasetValid ==
    (call.op \in {"normal", "suspicious"} /\ call.args.n >= 1) =>
        /\ Len(OutRows) = call.args.n
        /\ call.out.cols = EventCols
        /\ \A i \in 1..Len(OutRows) :
              /\ DOMAIN OutRows[i] = Range(EventCols)
              /\ OutRows[i]["file_type"] \in FILE_TYPES
              /\ OutRows[i]["action"] \in Actions
        /\ validate_dataframe(call.out).is_valid
        /\ validate_dataframe(call.out).errors = <<>>

\* a generic suspicious call for a random user returned the largest number
\* of rows, among them an image
C20_Witness ==
    /\ call.op = "suspicious"
    /\ call.args.pattern = "generic"
    /\ call.args.label_user = None
    /\ call.args.n = MaxGen
    /\ Len(OutRows) = MaxGen
    /\ \E i \in 1..Len(OutRows) : OutRows[i]["file_type"] = "Image"

(***************************************************************************)
(* Properties of the validator (specification SpecVal)                     *)
(***************************************************************************)
\* the prediction table breaks a schema or range invariant
BreaksPredictionInvariant(t) ==
    \/ ~HasCol(t, "risk_score")
    \/ ~HasCol(t, "anomaly_flag")
    \/ ~IsNumericDtype(ColumnOf(t.rows, "risk_score"))
    \/ OutOfRange(ColumnOf(t.rows, "risk_score"))
    \/ ~IsBoolDtype(ColumnOf(t.rows, "anomaly_flag"))

\* C19: validate_dataframe reports is_valid = false when a required column is
\* missing or the table is empty, and validate_ml_predictions reports
\* is_valid = false when risk_score or anomaly_flag is missing, when a
\* risk_score is non-numeric or outside [0, 100], or when anomaly_flag is not
\* boolean
C19_ValidatorRejects ==
    /\ (call.op = "validate_dataframe"
        /\ (MissingRequired(call.arg) # <<>> \/ IsEmpty(call.arg))) => ~call.out.is_valid
    /\ (call.op = "validate_ml_predictions"
        /\ BreaksPredictionInvariant(call.arg)) => ~call.out.is_valid


(***************************************************************************)
(* Properties of fit_and_score's flags (specification SpecDet)             *)
(***************************************************************************)
\* the scores the fitted ensemble gives its own training rows
FitScores(X) == [i \in 1..Len(X) |-> ScoreRow(X, X[i])]

FlaggedCount(flags) == Cardinality({i \in 1..Len(flags) : flags[i]})

C22_RetrainSavesModel ==
    (report.op = "retrain" /\ report.at # "fit") =>
        /\ ~report.failed
        /\ modelFile \notin {Absent, Corrupt}
        /\ modelFile.pipeline = model.pipeline
        /\ modelFile.feature_columns # None
        /\ modelFile.contamination \in SliderContaminations

(***************************************************************************)
(* Properties of engineer_features (specification SpecDet)                 *)
(***************************************************************************)
EngineerCall == call.op = "engineer" /\ call.out.ok /\ Len(call.arg.rows) > 0

\* the indices of the rows of t that belong to the user of row i
SameUser(t, i) == {j \in 1..Len(t.rows) : t.rows[j]["user_id"] = t.rows[i]["user_id"]}

\* the four per-user aggregates a row of the engineered table carries
Aggregates(r) ==
    <<r["avg_file_size"], r["std_file_size"], r["total_access"], r["download_ratio"]>>

\* the events a batch may be extended by
ExtraEvents(t) == {Event(LastId(t) + 1, u, k) : u \in Users, k \in Kinds}

\* C23: in the output of engineer_features all rows of a user carry the same
\* avg_file_size, std_file_size, total_access and download_ratio, computed
\* over all of that user's rows of the batch; total_access is the number of
\* those rows, download_ratio is the user's downloads over total_access and
\* lies in [0, 1]; and a row added for a user changes the aggregates of that
\* user's existing rows and of no other user's
C23_UserAggregatesBatchRelative ==
    EngineerCall =>
        /\ \A i \in 1..Len(call.arg.rows) :
              LET mine == SelectSeq(call.arg.rows,
                                    LAMBDA r : r["user_id"] = call.arg.rows[i]["user_id"])
                  downloads == Cardinality({j \in SameUser(call.arg, i) :
                                               call.arg.rows[j]["action"] = "download"})
                  out == call.out.val.rows[i]
              IN  /\ out["total_access"] = Cardinality(SameUser(call.arg, i))
                  /\ out["avg_file_size"] = GroupMean(ColumnOf(mine, "file_size_MB"))
                  /\ out["std_file_size"] = GroupStd(ColumnOf(mine, "file_size_MB"))
                  /\ out["download_ratio"] = <<downloads, Cardinality(SameUser(call.arg, i))>>
                  /\ 0 <= out["download_ratio"][1]
                  /\ out["download_ratio"][1] <= out["download_ratio"][2]
                  /\ out["download_ratio"][2] > 0
                  /\ \A j \in SameUser(call.arg, i) :
                        Aggregates(call.out.val.rows[j]) = Aggregates(out)
        /\ \A e \in ExtraEvents(call.arg) :
              LET more == engineer_features(Table(call.arg.cols, Append(call.arg.rows, e)))
              IN  /\ more.ok
                  /\ \A i \in 1..Len(call.arg.rows) :
                        (Aggregates(more.val.rows[i]) # Aggregates(call.out.val.rows[i]))
                            <=> call.arg.rows[i]["user_id"] = e["user_id"]

\* a batch in which one user has two rows of different sizes, one of them a
\* download, and another user has one row
C23_Witness ==
    /\ EngineerCall
    /\ \E i, j, k \in 1..Len(call.arg.rows) :
          /\ i # j
          /\ j \in SameUser(call.arg, i)
          /\ k \notin SameUser(call.arg, i)
          /\ call.arg.rows[i]["file_size_MB"] # call.arg.rows[j]["file_size_MB"]
          /\ call.out.val.rows[i]["download_ratio"] = <<1, 2>>
          /\ call.out.val.rows[k]["total_access"] = 1

\* the table a successful call returned
Returned == IF call.op = "engineer" THEN call.out.val ELSE call.out.val.scored

LogLoaded == df = None /\ df' # None /\ report'.op = "load"

ReportedFailure == report'.op \in {"retrain", "attack"} /\ report'.failed

\* C28: whenever _retrain_model or _simulate_attack reports failure, the
\* event log, the model and the scored table of the session and the CSV file
\* are what they were before the operation started
C28_FailureLeavesStateUnchanged ==
    [][ReportedFailure =>
          /\ df' = df
          /\ model' = model
          /\ df_scored' = df_scored
          /\ csv' = csv]_vars

\* the rows a step added at the end of the event log
Appended == SubSeq(df'.rows, Len(df.rows) + 1, Len(df'.rows))

\* what a simulate-attack step does to the event log: between 1 and MaxAttack
\* new events of one user, behind the existing ones
AppendsAttack ==
    /\ df'.cols = df.cols
    /\ Len(Appended) \in 1..MaxAttack
    /\ SubSeq(df'.rows, 1, Len(df.rows)) = df.rows
    /\ \A i \in 1..Len(Appended) :
          /\ Appended[i]["user_id"] = Appended[1]["user_id"]
          /\ Appended[i]["user_id"] \in UNION {SuspUsers(u) : u \in SimUsers}
          /\ Appended[i]["event_id"] \notin Range(EventIds(df))

\* C29: a simulate-attack step appends its new events, all for one user,
\* behind the existing events and changes no earlier event; a retrain step
\* leaves the event log as it is; and once simulate-attack has returned the
\* CSV file holds the same events as the in-memory log
C29_LogAppendOnly ==
    [][/\ report'.op = "attack" =>
             /\ AppendsAttack
             /\ csv' # Absent
             /\ read_csv(csv') = df'
       /\ report'.op = "retrain" => df' = df]_vars

(***************************************************************************)
(* Defined feature values (specification SpecDet)                          *)
(***************************************************************************)
\* C30: for every non-empty batch of well-formed events engineer_features
\* gives every row a defined number in each numeric feature column that can
\* be missing (std_file_size, file_type_risk) and a download_ratio with a
\* non-zero denominator, also when the row's user_id occurs once in the batch
C30_FeaturesDefined ==
    (EngineerCall /\ call.arg \in Batches) =>
        \A i \in 1..Len(call.arg.rows) :
            /\ IsNum(call.out.val.rows[i]["std_file_size"])
            /\ IsNum(call.out.val.rows[i]["file_type_risk"])
            /\ call.out.val.rows[i]["download_ratio"][2] > 0
(***************************************************************************)
(* engineer_features on batches whose file sizes sit on and around the     *)
(* bucket boundaries                                                       *)
(***************************************************************************)
\* 0.0, 0.1, 9.9, 10.0, 10.1, 49.9, 50.0, 50.1, 99.9, 100.0, 100.1 and 120.0 MB
SizeSamples == {0, 1, 99, 100, 101, 499, 500, 501, 999, 1000, 1001, 1200}

MaxSized == 2      \* rows of a batch of sized events

\* batches of PDF views of one user, of the sizes in SizeSamples
SizedBatches ==
    UNION {{Table(EventCols,
                  [i \in 1..n |->
                      Event(i, "employee101",
                            [file_type |-> "PDF", file_size_MB |-> s[i],
                             access_time |-> WorkTime, action |-> "view"])]) :
               s \in [1..n -> SizeSamples]} : n \in 1..MaxSized}

NextFeat == \E t \in SizedBatches : DetEngineer(t)

SpecFeat == InitDet /\ [][NextFeat]_vars

\* C26: size_risk_score is 10 when size > 100, 7 when 50 < size <= 100, 4
\* when 10 < size <= 50 and 1 when size <= 10 (sizes in tenths of a MB), and
\* is_large_file is 1 exactly when size_risk_score >= 7, 0 otherwise
C26_SizeRiskBuckets ==
    EngineerCall =>
        \A i \in 1..Len(call.arg.rows) :
            LET size == call.arg.rows[i]["file_size_MB"]
                out == call.out.val.rows[i]
            IN  /\ size > 1000 => out["size_risk_score"] = 10
                /\ (500 < size /\ size <= 1000) => out["size_risk_score"] = 7
                /\ (100 < size /\ size <= 500) => out["size_risk_score"] = 4
                /\ size <= 100 => out["size_risk_score"] = 1
                /\ out["is_large_file"] \in {0, 1}
                /\ out["is_large_file"] = 1 <=> out["size_risk_score"] >= 7

\* a batch with a 50.0 MB file (bucket 4, not large) and a 100.0 MB file
\* (bucket 7, large)
C26_Witness ==
    /\ EngineerCall
    /\ \E i, j \in 1..Len(call.arg.rows) :
          /\ call.arg.rows[i]["file_size_MB"] = 500
          /\ call.out.val.rows[i]["size_risk_score"] = 4
          /\ call.out.val.rows[i]["is_large_file"] = 0
          /\ call.arg.rows[j]["file_size_MB"] = 1000
          /\ call.out.val.rows[j]["size_risk_score"] = 7
          /\ call.out.val.rows[j]["is_large_file"] = 1

(***************************************************************************)
(* One PerformanceMonitor under direct use (test_app style).  datetime.now *)
(* reads the local wall clock, which the system may set back between two  *)
(* readings (a clock correction, the end of daylight saving time).        *)
(***************************************************************************)
\* 01:00, 01:59 and 02:30 of one day
WallClock == {DateTime(10, 1, 0), DateTime(10, 1, 59), DateTime(10, 2, 30)}

StartTimer(operation) ==
    /\ call.op # "get_metrics"
    /\ \E m \in {start_timer(Monitor(start_times, metrics), operation, clock)} :
          /\ start_times' = m.start_times
          /\ metrics' = m.metrics
    /\ call' = [op |-> "start_timer", name |-> operation,
                pre |-> Monitor(start_times, metrics)]
    /\ UNCHANGED <<det, trained, saver, modelFile, finiteCheck>>
    /\ UNCHANGED <<df, model, df_scored, csv, report>>
    /\ UNCHANGED genVars

EndTimer(operation) ==
    /\ call.op # "get_metrics"
    /\ \E e \in {end_timer(Monitor(start_times, metrics), operation, clock)} :
          /\ start_times' = e.mon.start_times
          /\ metrics' = e.mon.metrics
          /\ call' = [op |-> "end_timer", name |-> operation, out |-> e.out,
                      pre |-> Monitor(start_times, metrics)]
    /\ UNCHANGED <<det, trained, saver, modelFile, finiteCheck>>
    /\ UNCHANGED <<df, model, df_scored, csv, report>>
    /\ UNCHANGED genVars

\* m = get_metrics(); m[operation] = 99.0
GetMetrics(operation) ==
    /\ call.op = "end_timer"
    /\ \E written \in {[metrics EXCEPT ![operation] = [duration |-> 99]]} :
          /\ metrics' = MetricsAfterWrite(metrics, written)
          /\ call' = [op |-> "get_metrics", name |-> operation, out |-> written,
                      pre |-> Monitor(start_times, metrics)]
    /\ UNCHANGED start_times
    /\ UNCHANGED <<det, trained, saver, modelFile, finiteCheck>>
    /\ UNCHANGED <<df, model, df_scored, csv, report>>
    /\ UNCHANGED genVars

\* time passes, or the wall clock is set
ClockMoves ==
    /\ call.op = "start_timer"
    /\ \E t \in WallClock : t # clock /\ clock' = t
    /\ UNCHANGED <<stream, drawn, prev>>
    /\ UNCHANGED detVars
    /\ UNCHANGED <<modelFile, finiteCheck>>
    /\ UNCHANGED <<df, model, df_scored, csv, report>>
    /\ UNCHANGED monVars

InitMon ==
    /\ AppInit
    /\ DetInit
    /\ modelFile = Absent
    /\ finiteCheck = FALSE
    /\ stream = [np |-> [start |-> 0, step |-> 0], py |-> [start |-> 0, step |-> 0]]
    /\ drawn = Seeded
    /\ prev = NoCall
    /\ clock \in WallClock

NextMon ==
    \/ \E o \in Operations : StartTimer(o)
    \/ \E o \in Operations : EndTimer(o)
    \/ \E o \in Operations : GetMetrics(o)
    \/ ClockMoves

SpecMon == InitMon /\ [][NextMon]_vars

(***************************************************************************)
(* Properties of the PerformanceMonitor (specification SpecMon)            *)
(***************************************************************************)
Now == Monitor(start_times, metrics)

\* the parts of the timing protocol that do not depend on the clock
TimerBookkeeping ==
    /\ call.op = "start_timer" =>
          /\ Pending(Now, call.name)
          /\ \A o \in Operations \ {call.name} : Pending(Now, o) <=> Pending(call.pre, o)
          /\ metrics = call.pre.metrics
    /\ (call.op = "end_timer" /\ Pending(call.pre, call.name)) =>
          /\ metrics[call.name] = [duration |-> call.out]
          /\ ~Pending(Now, call.name)
          /\ \A o \in Operations \ {call.name} :
                /\ Pending(Now, o) <=> Pending(call.pre, o)
                /\ metrics[o] = call.pre.metrics[o]
    /\ (call.op = "end_timer" /\ ~Pending(call.pre, call.name)) =>
          /\ call.out = 0
          /\ Now = call.pre
    /\ call.op = "get_metrics" =>
          /\ Now = call.pre
          /\ call.out # metrics

\* C27: an operation is pending from its start_timer until the next
\* end_timer for its name; end_timer on a pending operation returns a
\* non-negative duration, records it as the metric and clears the pending
\* entry; end_timer on an operation that is not pending returns 0.0 and
\* leaves the metrics unchanged; writing into what get_metrics returned does
\* not change the monitor
C27_TimerProtocol ==
    /\ TimerBookkeeping
    /\ call.op = "end_timer" => call.out >= 0
=============================================================================
